---- MODULE Spec2Model ----
(***************************************************************************)
(* A model of the ETL pipeline of etl_pipeline.py: the three entity        *)
(* transformers, the referential-integrity filter, the three loaders and   *)
(* the orchestrator run_pipeline.                                          *)
(*                                                                         *)
(* Data representation.  A DataFrame is a sequence of rows (records) in    *)
(* input order.  Text cells whose characters matter (email, category, the  *)
(* rendered transaction_date) are sequences of one-character strings; the  *)
(* empty sequence stands for the absent cell (read_csv turns every empty   *)
(* field into NaN, so an empty text never reaches a transformer).  Other   *)
(* text cells are strings and the string "NaN" is the absent cell.  A raw  *)
(* numeric cell is a record [k, v]: k = "num" for text that spells the     *)
(* number v, k = "text" for anything to_numeric coerces to NaN and         *)
(* k = "nan" for the absent cell.  A raw date cell is the triple of        *)
(* numbers <<year, month, day>> its text spells, or <<>> when the cell is  *)
(* absent.  Identifiers are strings: only their equality is used.          *)
(***************************************************************************)
EXTENDS Integers, Sequences, FiniteSets, TLC

VARIABLES
    rawC,       \* customers.csv as read by extract_data: [hasName, rows]
    rawP,       \* products.csv: sequence of rows
    rawT,       \* transactions.csv: sequence of rows
    pc,         \* position of run_pipeline (or of a transformer driver)
    customers_clean,
    products_clean,
    transactions_clean,
    transformed_counts,
    loaded_counts,
    db,         \* the committed content of the three tables
    pending,    \* the connection's uncommitted view of the three tables
    conn,       \* "none" | "open" | "closed"
    exc,        \* the exception in flight ("none" when there is none)
    outcome,    \* how run_pipeline ended: "running" | "returned" | "raised"
    report,     \* what check_etl_pipeline printed: PASS/FAIL per entity, status
    log,        \* the stages completed so far, then "close"
    history     \* the store this run of main started from, and what the
                \* runs of main before it ended with

vars == <<rawC, rawP, rawT, pc, customers_clean, products_clean,
          transactions_clean, transformed_counts, loaded_counts, db, pending,
          conn, exc, outcome, report, log, history>>

----------------------------------------------------------------------------
(* Bounds of the model *)

\* rows per raw customer batch given to transform_customers on its own
MaxCustomerRows == 3
\* rows per raw product batch given to transform_products on its own
MaxProductRows == 2
\* rows per raw transaction batch given to transform_transactions on its own
MaxTransactionRows == 2
\* rows per raw customer batch in the pipeline specification
MaxPipeCustomers == 2
\* rows per raw product batch in the pipeline specification
MaxPipeProducts == 1
\* rows per raw transaction batch in the pipeline specification
MaxPipeTransactions == 1
\* the largest count handed to check_etl_pipeline on its own
MaxCount == 1
\* how many times main is run on the same files
MaxRuns == 2
\* rows per raw batch when main is run more than once
MaxTwiceRows == 2

----------------------------------------------------------------------------
(* Generic DataFrame operations *)

NaN == "NaN"
NaT == <<>>

\* df[mask]: the rows of s whose index is in keep, in input order
SelectIdx(s, keep) ==
    LET F[i \in 0..Len(s)] ==
            IF i = 0 THEN <<>>
            ELSE IF i \in keep THEN Append(F[i - 1], s[i]) ELSE F[i - 1]
    IN  F[Len(s)]

\* the cells of row r in the columns of subset
Key(r, subset) == [c \in subset |-> r[c]]

\* DataFrame.drop_duplicates(subset=subset, keep='first'): NaN equals NaN
drop_duplicates(s, subset) ==
    SelectIdx(s, { i \in 1..Len(s) :
                    \A j \in 1..(i - 1) : Key(s[j], subset) # Key(s[i], subset) })

\* the set of values of column c
Column(s, c) == { s[i][c] : i \in 1..Len(s) }

\* all sequences over S of length at most n
SeqUpTo(S, n) == UNION { [1..k -> S] : k \in 0..n }

----------------------------------------------------------------------------
(* Characters *)

LowerCase == {"a","b","c","d","e","f","g","h","i","j","k","l","m",
              "n","o","p","q","r","s","t","u","v","w","x","y","z"}
UpperCase == {"A","B","C","D","E","F","G","H","I","J","K","L","M",
              "N","O","P","Q","R","S","T","U","V","W","X","Y","Z"}
Letters == LowerCase \cup UpperCase
Digits == {"0","1","2","3","4","5","6","7","8","9"}

----------------------------------------------------------------------------
(* transform_customers *)

invalid_patterns == {
    <<"i","n","v","a","l","i","d","_","e","m","a","i","l">>,
    <<"u","s","e","r","@",".","c","o","m">>,
    <<"u","s","e","r","@">>,
    <<"@","e","x","a","m","p","l","e",".","c","o","m">>,
    <<"u","s","e","r",".",".","n","a","m","e","@","e","x","a","m","p","l","e",".","c","o","m">>,
    <<"u","s","e","r"," ","n","a","m","e","@","e","x","a","m","p","l","e",".","c","o","m">>,
    <<"u","s","e","r","@","e","x","a","m","p","l","e",".",".","c","o","m">>,
    <<"u","s","e","r","@",".","e","x","a","m","p","l","e",".","c","o","m">>,
    <<"u","s","e","r","@","e","x","a","m","p","l","e",".","c","o","m",".">>,
    <<"u","s","e","r","@","-","e","x","a","m","p","l","e",".","c","o","m">>,
    <<"u","s","e","r","@","e","x","a","m","p","l","e","-",".","c","o","m">>
}

\* [a-zA-Z0-9._%+-]
LocalChars == Letters \cup Digits \cup {".", "_", "%", "+", "-"}
\* [a-zA-Z0-9.-]
DomainChars == Letters \cup Digits \cup {".", "-"}

\* s[a..b] is non-empty and made of characters of Class
Run(s, a, b, Class) == a <= b /\ \A k \in a..b : s[k] \in Class

\* local@domain.tld read on the first n characters of s
PatternUpTo(s, n) ==
    \E at \in 1..n : \E dot \in 1..n :
        /\ s[at] = "@"
        /\ s[dot] = "."
        /\ Run(s, 1, at - 1, LocalChars)
        /\ Run(s, at + 1, dot - 1, DomainChars)
        /\ dot + 2 <= n
        /\ Run(s, dot + 1, n, Letters)

\* the positions at which "$" matches: the end of the string, and just
\* before a newline that ends the string
DollarEnds(s) ==
    {Len(s)} \cup (IF Len(s) > 0 /\ s[Len(s)] = "\n" THEN {Len(s) - 1} ELSE {})

\* re.match(r'^[a-zA-Z0-9._%+-]+@[a-zA-Z0-9.-]+\.[a-zA-Z]{2,}$', s)
email_pattern(s) == \E n \in DollarEnds(s) : PatternUpTo(s, n)

\* the .str accessor exists on an object column only: read_csv gives an
\* all-NaN column of a non-empty file the dtype float64
StrAccessorRaises(s, c) ==
    Len(s) > 0 /\ \A i \in 1..Len(s) : s[i][c] = <<>>

dropna_email(rows) == SelectIdx(rows, { i \in 1..Len(rows) : rows[i].email # <<>> })

drop_invalid_patterns(rows) ==
    SelectIdx(rows, { i \in 1..Len(rows) : rows[i].email \notin invalid_patterns })

match_email_pattern(rows) ==
    SelectIdx(rows, { i \in 1..Len(rows) : email_pattern(rows[i].email) })

\* mutant: keep='last'
dedup_email_keep_last(rows) ==
    SelectIdx(rows, { i \in 1..Len(rows) :
                        \A j \in (i + 1)..Len(rows) : rows[j].email # rows[i].email })

dedup_email(rows) == drop_duplicates(rows, {"email"})

dedup_customer_id(rows) == drop_duplicates(rows, {"customer_id"})

\* if 'name' not in df.columns: df['name'] = 'Unknown'
default_name(df, rows) ==
    IF df.hasName THEN rows
    ELSE [i \in 1..Len(rows) |-> [rows[i] EXCEPT !.name = "Unknown"]]

transform_customers_raises(df) == StrAccessorRaises(df.rows, "email")

transform_customers(df) ==
    [hasName |-> TRUE,
     rows |-> default_name(df,
                dedup_customer_id(
                  dedup_email(
                    match_email_pattern(
                      drop_invalid_patterns(
                        dropna_email(df.rows))))))]

----------------------------------------------------------------------------
(* transform_products *)

LowerSeq == <<"a","b","c","d","e","f","g","h","i","j","k","l","m",
              "n","o","p","q","r","s","t","u","v","w","x","y","z">>
UpperSeq == <<"A","B","C","D","E","F","G","H","I","J","K","L","M",
              "N","O","P","Q","R","S","T","U","V","W","X","Y","Z">>

\* the lower-case letter of each upper-case letter
ToLower ==
    [c \in UpperCase |-> LowerSeq[CHOOSE i \in 1..Len(UpperSeq) : UpperSeq[i] = c]]

\* str.lower() on one character
LowerChar(c) == IF c \in UpperCase THEN ToLower[c] ELSE c

\* Series.str.lower() on one cell (NaN stays NaN)
str_lower(s) == [i \in 1..Len(s) |-> LowerChar(s[i])]

category_mapping == {
    <<<<"e","l","e","c","t","r","o","n","i","c","s">>, <<"E","l","e","c","t","r","o","n","i","c","s">>>>,
    <<<<"E","L","E","C","T","R","O","N","I","C","S">>, <<"E","l","e","c","t","r","o","n","i","c","s">>>>,
    <<<<"b","o","o","k","s">>, <<"B","o","o","k","s">>>>,
    <<<<"B","O","O","K","S">>, <<"B","o","o","k","s">>>>,
    <<<<"h","o","m","e">>, <<"H","o","m","e">>>>,
    <<<<"H","O","M","E">>, <<"H","o","m","e">>>>
}

\* Series.map(category_mapping) on one cell: NaN when the key is missing
map_category(s) ==
    IF \E kv \in category_mapping : kv[1] = s
    THEN (CHOOSE kv \in category_mapping : kv[1] = s)[2]
    ELSE <<>>

\* mutant: the raw cell is looked up as it is, without str.lower()
standardize_category_exact_key(c) ==
    LET mapped == map_category(c)
    IN  IF mapped # <<>> THEN mapped ELSE c

\* df['category'].str.lower().map(category_mapping).fillna(df['category'])
standardize_category(c) ==
    LET mapped == map_category(str_lower(c))
    IN  IF mapped # <<>> THEN mapped ELSE c

\* pd.to_numeric(cell, errors='coerce') leaves a number; NaN otherwise
IsNumeric(cell) == cell.k = "num"

max_price == 10000

apply_standardization(rows) ==
    [i \in 1..Len(rows) |->
        [rows[i] EXCEPT !.category = standardize_category(rows[i].category)]]

dedup_product_id(rows) == drop_duplicates(rows, {"product_id"})

dedup_name_category(rows) == drop_duplicates(rows, {"name", "category"})

\* price = to_numeric(price, errors='coerce'); dropna(subset=['price'])
coerce_price(rows) ==
    LET kept == SelectIdx(rows, { i \in 1..Len(rows) : IsNumeric(rows[i].price) })
    IN  [i \in 1..Len(kept) |-> [kept[i] EXCEPT !.price = kept[i].price.v]]

price_in_range(rows) ==
    SelectIdx(rows, { i \in 1..Len(rows) :
                        rows[i].price > 0 /\ rows[i].price <= max_price })

transform_products_raises(rows) == StrAccessorRaises(rows, "category")

\* mutant: the categories are standardized after the two dedups
transform_products_dedup_first(rows) ==
    price_in_range(
      coerce_price(
        apply_standardization(
          dedup_name_category(
            dedup_product_id(rows)))))

\* mutant: the price is validated before the two dedups
transform_products_price_first(rows) ==
    dedup_name_category(
      dedup_product_id(
        price_in_range(
          coerce_price(
            apply_standardization(rows)))))

transform_products(rows) ==
    price_in_range(
      coerce_price(
        dedup_name_category(
          dedup_product_id(
            apply_standardization(rows)))))

----------------------------------------------------------------------------
(* transform_transactions *)

min_year == 1900
max_year == 2100

IsLeap(y) == (y % 4 = 0 /\ y % 100 # 0) \/ y % 400 = 0

DaysInMonth(y, m) ==
    IF m = 2 THEN (IF IsLeap(y) THEN 29 ELSE 28)
    ELSE IF m \in {4, 6, 9, 11} THEN 30 ELSE 31

\* the text spells a day of the calendar
RealDate(d) ==
    /\ Len(d) = 3
    /\ d[2] \in 1..12
    /\ d[3] \in 1..DaysInMonth(d[1], d[2])

\* pd.to_datetime(date_str, errors='coerce'): the Timestamp, or NaT
to_datetime(d) == IF RealDate(d) THEN d ELSE NaT

\* validate_date: the parsed Timestamp, or None
validate_date(d) ==
    IF d = <<>> THEN NaT
    ELSE IF to_datetime(d) = NaT THEN NaT
    ELSE IF to_datetime(d)[1] < min_year \/ to_datetime(d)[1] > max_year THEN NaT
    ELSE to_datetime(d)

EmptyRow ==
    [transaction_id |-> NaN, customer_id |-> NaN, product_id |-> NaN,
     amount |-> [k |-> "nan", v |-> 0], date |-> <<>>]

\* df.dropna(how='all')
dropna_all(rows) == SelectIdx(rows, { i \in 1..Len(rows) : rows[i] # EmptyRow })

\* df['date'] = df['date'].apply(validate_date)
apply_validate_date(rows) ==
    [i \in 1..Len(rows) |-> [rows[i] EXCEPT !.date = validate_date(rows[i].date)]]

dropna_date(rows) == SelectIdx(rows, { i \in 1..Len(rows) : rows[i].date # NaT })

TransactionColumns ==
    {"transaction_id", "customer_id", "product_id", "amount", "date"}

dedup_rows(rows) == drop_duplicates(rows, TransactionColumns)

dedup_transaction_id(rows) == drop_duplicates(rows, {"transaction_id"})

max_amount == 10000

\* amount = to_numeric(amount, errors='coerce'); dropna(subset=['amount'])
coerce_amount(rows) ==
    LET kept == SelectIdx(rows, { i \in 1..Len(rows) : IsNumeric(rows[i].amount) })
    IN  [i \in 1..Len(kept) |-> [kept[i] EXCEPT !.amount = kept[i].amount.v]]

\* mutant: amount >= 0
amount_in_range_zero_included(rows) ==
    SelectIdx(rows, { i \in 1..Len(rows) :
                        rows[i].amount >= 0 /\ rows[i].amount <= max_amount })

amount_in_range(rows) ==
    SelectIdx(rows, { i \in 1..Len(rows) :
                        rows[i].amount > 0 /\ rows[i].amount <= max_amount })

DigitSeq == <<"0","1","2","3","4","5","6","7","8","9">>
DigitChar(n) == DigitSeq[n + 1]

\* Timestamp.strftime('%Y-%m-%d')
strftime(d) ==
    << DigitChar(d[1] \div 1000), DigitChar((d[1] \div 100) % 10),
       DigitChar((d[1] \div 10) % 10), DigitChar(d[1] % 10), "-",
       DigitChar(d[2] \div 10), DigitChar(d[2] % 10), "-",
       DigitChar(d[3] \div 10), DigitChar(d[3] % 10) >>

\* rename(columns={'date': 'transaction_date'}) and .dt.strftime('%Y-%m-%d')
rename_and_format(rows) ==
    [i \in 1..Len(rows) |->
        [transaction_id |-> rows[i].transaction_id,
         customer_id |-> rows[i].customer_id,
         product_id |-> rows[i].product_id,
         amount |-> rows[i].amount,
         transaction_date |-> strftime(rows[i].date)]]

\* the .dt accessor exists on a datetime64 column only: apply() yields one
\* only when validate_date returned a Timestamp for some row
DtAccessorRaises(rows) ==
    \A i \in 1..Len(rows) : rows[i].date = NaT

transform_transactions_raises(rows) ==
    DtAccessorRaises(apply_validate_date(dropna_all(rows)))

transform_transactions(rows) ==
    rename_and_format(
      amount_in_range(
        coerce_amount(
          dedup_transaction_id(
            dedup_rows(
              dropna_date(
                apply_validate_date(
                  dropna_all(rows))))))))

----------------------------------------------------------------------------
(* validate_referential_integrity *)

valid_customer_ids(customers) == Column(customers.rows, "customer_id")

valid_product_ids(products) == Column(products, "product_id")

\* mutant: the product_id test is left out of the filter
validate_referential_integrity_customers_only(customers, products, transactions) ==
    SelectIdx(transactions, { i \in 1..Len(transactions) :
        transactions[i].customer_id \in valid_customer_ids(customers) })

validate_referential_integrity(customers, products, transactions) ==
    SelectIdx(transactions, { i \in 1..Len(transactions) :
        /\ transactions[i].customer_id \in valid_customer_ids(customers)
        /\ transactions[i].product_id \in valid_product_ids(products) })

----------------------------------------------------------------------------
(* The store: create_tables' schema and the three loaders *)

\* customer_id TEXT PRIMARY KEY, name TEXT NOT NULL, email TEXT UNIQUE NOT NULL
customers_insert_ok(table, r) ==
    /\ r.name # NaN
    /\ r.email # <<>>
    /\ r.email \notin Column(table, "email")
    /\ (r.customer_id = NaN \/ r.customer_id \notin Column(table, "customer_id"))

\* product_id INTEGER PRIMARY KEY, name, category, price NOT NULL
\* (a row without product_id would be stored under the next free rowid; the
\* product batches loaded here all carry a product_id)
products_insert_ok(table, r) ==
    /\ r.name # NaN
    /\ r.category # <<>>
    /\ (r.product_id = NaN \/ r.product_id \notin Column(table, "product_id"))

\* transaction_id TEXT PRIMARY KEY, customer_id, product_id NOT NULL
\* (the foreign keys are declared but SQLite does not enforce them here)
transactions_insert_ok(table, r) ==
    /\ r.customer_id # NaN
    /\ r.product_id # NaN
    /\ (r.transaction_id = NaN
            \/ r.transaction_id \notin Column(table, "transaction_id"))

\* cursor.execute('INSERT INTO <t> ...') of row r succeeds on the table
insert_ok(t, table, r) ==
    CASE t = "customers" -> customers_insert_ok(table, r)
      [] t = "products" -> products_insert_ok(table, r)
      [] t = "transactions" -> transactions_insert_ok(table, r)

\* the index of the first row whose INSERT violates a constraint, 0 if none
FirstRejected(t, rows) ==
    IF \E i \in 1..Len(rows) : ~insert_ok(t, SubSeq(rows, 1, i - 1), rows[i])
    THEN CHOOSE i \in 1..Len(rows) :
            /\ ~insert_ok(t, SubSeq(rows, 1, i - 1), rows[i])
            /\ \A j \in 1..(i - 1) : insert_ok(t, SubSeq(rows, 1, j - 1), rows[j])
    ELSE 0

\* the table after DELETE FROM and the INSERTs that ran
Inserted(t, rows) ==
    IF FirstRejected(t, rows) = 0 THEN rows
    ELSE SubSeq(rows, 1, FirstRejected(t, rows) - 1)

EmptyDb == [customers |-> <<>>, products |-> <<>>, transactions |-> <<>>]

NoCounts == [customers |-> 0, products |-> 0, transactions |-> 0]

NoReport == [customers |-> "", products |-> "", transactions |-> "", status |-> ""]

NoException == <<>>

----------------------------------------------------------------------------
(* run_pipeline *)

\* a stage raised: control goes to run_pipeline's except block
Raise(stage, kind) ==
    /\ exc' = <<stage, kind>>
    /\ pc' = "Except"

Completed(stage, next) ==
    /\ log' = Append(log, stage)
    /\ pc' = next
    /\ exc' = exc

connect_database_ok ==
    /\ pc = "Idle"
    /\ conn' = "open"
    /\ Completed("connect_database", "Connected")
    /\ UNCHANGED <<history, rawC, rawP, rawT, customers_clean, products_clean,
                   transactions_clean, transformed_counts, loaded_counts, db,
                   pending, outcome, report>>

connect_database_error ==
    /\ pc = "Idle"
    /\ Raise("connect_database", "OperationalError")
    /\ UNCHANGED <<history, rawC, rawP, rawT, customers_clean, products_clean,
                   transactions_clean, transformed_counts, loaded_counts, db,
                   pending, conn, outcome, report, log>>

Connect == connect_database_ok \/ connect_database_error

create_tables_ok ==
    /\ pc = "Connected"
    /\ Completed("create_tables", "TablesReady")
    /\ UNCHANGED <<history, rawC, rawP, rawT, customers_clean, products_clean,
                   transactions_clean, transformed_counts, loaded_counts, db,
                   pending, conn, outcome, report>>

create_tables_error ==
    /\ pc = "Connected"
    /\ Raise("create_tables", "OperationalError")
    /\ UNCHANGED <<history, rawC, rawP, rawT, customers_clean, products_clean,
                   transactions_clean, transformed_counts, loaded_counts, db,
                   pending, conn, outcome, report, log>>

CreateTables == create_tables_ok \/ create_tables_error

extract_data_ok ==
    /\ pc = "TablesReady"
    /\ Completed("extract_data", "Extracted")
    /\ UNCHANGED <<history, rawC, rawP, rawT, customers_clean, products_clean,
                   transactions_clean, transformed_counts, loaded_counts, db,
                   pending, conn, outcome, report>>

extract_data_error ==
    /\ pc = "TablesReady"
    /\ Raise("extract_data", "OSError")
    /\ UNCHANGED <<history, rawC, rawP, rawT, customers_clean, products_clean,
                   transactions_clean, transformed_counts, loaded_counts, db,
                   pending, conn, outcome, report, log>>

Extract == extract_data_ok \/ extract_data_error

TransformCustomers ==
    /\ pc = "Extracted"
    /\ IF transform_customers_raises(rawC)
       THEN /\ Raise("transform_customers", "AttributeError")
            /\ UNCHANGED <<customers_clean, log>>
       ELSE /\ customers_clean' = transform_customers(rawC)
            /\ Completed("transform_customers", "CustomersTransformed")
    /\ UNCHANGED <<history, rawC, rawP, rawT, products_clean, transactions_clean,
                   transformed_counts, loaded_counts, db, pending, conn,
                   outcome, report>>

TransformProducts ==
    /\ pc = "CustomersTransformed"
    /\ IF transform_products_raises(rawP)
       THEN /\ Raise("transform_products", "AttributeError")
            /\ UNCHANGED <<products_clean, log>>
       ELSE /\ products_clean' = transform_products(rawP)
            /\ Completed("transform_products", "ProductsTransformed")
    /\ UNCHANGED <<history, rawC, rawP, rawT, customers_clean, transactions_clean,
                   transformed_counts, loaded_counts, db, pending, conn,
                   outcome, report>>

TransformTransactions ==
    /\ pc = "ProductsTransformed"
    /\ IF transform_transactions_raises(rawT)
       THEN /\ Raise("transform_transactions", "AttributeError")
            /\ UNCHANGED <<transactions_clean, log>>
       ELSE /\ transactions_clean' = transform_transactions(rawT)
            /\ Completed("transform_transactions", "Transformed")
    /\ UNCHANGED <<history, rawC, rawP, rawT, customers_clean, products_clean,
                   transformed_counts, loaded_counts, db, pending, conn,
                   outcome, report>>

\* mutant: the filter runs before transform_transactions
ValidateIntegrity_before_transactions ==
    /\ pc = "ProductsTransformed"
    /\ transactions_clean' =
          validate_referential_integrity(customers_clean, products_clean,
                                         transactions_clean)
    /\ transformed_counts' =
          [customers |-> Len(customers_clean.rows),
           products |-> Len(products_clean),
           transactions |-> Len(transactions_clean')]
    /\ Completed("validate_referential_integrity", "IntegrityFiltered")
    /\ UNCHANGED <<history, rawC, rawP, rawT, customers_clean, products_clean,
                   loaded_counts, db, pending, conn, outcome, report>>

\* Step 5, and the transformed counts stored for validation
ValidateIntegrity ==
    /\ pc = "Transformed"
    /\ transactions_clean' =
          validate_referential_integrity(customers_clean, products_clean,
                                         transactions_clean)
    /\ transformed_counts' =
          [customers |-> Len(customers_clean.rows),
           products |-> Len(products_clean),
           transactions |-> Len(transactions_clean')]
    /\ Completed("validate_referential_integrity", "IntegrityFiltered")
    /\ UNCHANGED <<history, rawC, rawP, rawT, customers_clean, products_clean,
                   loaded_counts, db, pending, conn, outcome, report>>

\* mutant: the loader does not DELETE FROM the table first
Load_without_delete(stage, t, rows, next) ==
    /\ pending' = [pending EXCEPT ![t] = Inserted(t, pending[t] \o rows)]
    /\ IF FirstRejected(t, pending[t] \o rows) = 0
       THEN /\ db' = pending'
            /\ Completed(stage, next)
       ELSE /\ Raise(stage, "IntegrityError")
            /\ UNCHANGED <<db, log>>

\* the table after DELETE FROM and INSERT OR IGNORE of each row
InsertedIgnoring(t, rows) ==
    LET F[i \in 0..Len(rows)] ==
            IF i = 0 THEN <<>>
            ELSE IF insert_ok(t, F[i - 1], rows[i])
                 THEN Append(F[i - 1], rows[i])
                 ELSE F[i - 1]
    IN  F[Len(rows)]

\* mutant: a row the table rejects is skipped (INSERT OR IGNORE) and the
\* loader commits the rest
Load_insert_or_ignore(stage, t, rows, next) ==
    /\ pending' = [pending EXCEPT ![t] = InsertedIgnoring(t, rows)]
    /\ db' = pending'
    /\ Completed(stage, next)

\* one loader: DELETE FROM, the INSERTs, commit
Load(stage, t, rows, next) ==
    /\ pending' = [pending EXCEPT ![t] = Inserted(t, rows)]
    /\ IF FirstRejected(t, rows) = 0
       THEN /\ db' = pending'
            /\ Completed(stage, next)
       ELSE /\ Raise(stage, "IntegrityError")
            /\ UNCHANGED <<db, log>>

load_customers ==
    /\ pc = "IntegrityFiltered"
    /\ Load("load_customers", "customers", customers_clean.rows,
            "CustomersLoaded")
    /\ UNCHANGED <<history, rawC, rawP, rawT, customers_clean, products_clean,
                   transactions_clean, transformed_counts, loaded_counts,
                   conn, outcome, report>>

\* mutant: the commit runs although an INSERT failed
load_products_commit_partial ==
    /\ pc = "CustomersLoaded"
    /\ pending' = [pending EXCEPT
                     !.products = Inserted("products", products_clean)]
    /\ db' = pending'
    /\ IF FirstRejected("products", products_clean) = 0
       THEN Completed("load_products", "ProductsLoaded")
       ELSE /\ Raise("load_products", "IntegrityError")
            /\ UNCHANGED log
    /\ UNCHANGED <<history, rawC, rawP, rawT, customers_clean, products_clean,
                   transactions_clean, transformed_counts, loaded_counts,
                   conn, outcome, report>>

load_products ==
    /\ pc = "CustomersLoaded"
    /\ Load("load_products", "products", products_clean, "ProductsLoaded")
    /\ UNCHANGED <<history, rawC, rawP, rawT, customers_clean, products_clean,
                   transactions_clean, transformed_counts, loaded_counts,
                   conn, outcome, report>>

load_transactions ==
    /\ pc = "ProductsLoaded"
    /\ Load("load_transactions", "transactions", transactions_clean, "Loaded")
    /\ UNCHANGED <<history, rawC, rawP, rawT, customers_clean, products_clean,
                   transactions_clean, transformed_counts, loaded_counts,
                   conn, outcome, report>>

\* a loader's statement fails in the store (database locked, disk error)
load_error ==
    /\ \E st \in {<<"IntegrityFiltered", "load_customers">>,
                  <<"CustomersLoaded", "load_products">>,
                  <<"ProductsLoaded", "load_transactions">>} :
          /\ pc = st[1]
          /\ Raise(st[2], "OperationalError")
    /\ UNCHANGED <<history, rawC, rawP, rawT, customers_clean, products_clean,
                   transactions_clean, transformed_counts, loaded_counts, db,
                   pending, conn, outcome, report, log>>

verify_data_loaded_ok ==
    /\ pc = "Loaded"
    /\ loaded_counts' = [customers |-> Len(pending.customers),
                         products |-> Len(pending.products),
                         transactions |-> Len(pending.transactions)]
    /\ Completed("verify_data_loaded", "Verified")
    /\ UNCHANGED <<history, rawC, rawP, rawT, customers_clean, products_clean,
                   transactions_clean, transformed_counts, db, pending, conn,
                   outcome, report>>

verify_data_loaded_error ==
    /\ pc = "Loaded"
    /\ Raise("verify_data_loaded", "OperationalError")
    /\ UNCHANGED <<history, rawC, rawP, rawT, customers_clean, products_clean,
                   transactions_clean, transformed_counts, loaded_counts, db,
                   pending, conn, outcome, report, log>>

Verify == verify_data_loaded_ok \/ verify_data_loaded_error

PassFail(match) == IF match THEN "PASS" ELSE "FAIL"

check_etl_pipeline(transformed, loaded) ==
    LET customer_match == transformed.customers = loaded.customers
        product_match == transformed.products = loaded.products
        transaction_match == transformed.transactions = loaded.transactions
    IN  [customers |-> PassFail(customer_match),
         products |-> PassFail(product_match),
         transactions |-> PassFail(transaction_match),
         status |-> PassFail(customer_match /\ product_match /\ transaction_match)]

Check ==
    /\ pc = "Verified"
    /\ report' = check_etl_pipeline(transformed_counts, loaded_counts)
    /\ Completed("check_etl_pipeline", "Finally")
    /\ UNCHANGED <<history, rawC, rawP, rawT, customers_clean, products_clean,
                   transactions_clean, transformed_counts, loaded_counts, db,
                   pending, conn, outcome>>

\* except Exception as e: print(...); raise
ExceptReraise ==
    /\ pc = "Except"
    /\ pc' = "Finally"
    /\ UNCHANGED <<history, rawC, rawP, rawT, customers_clean, products_clean,
                   transactions_clean, transformed_counts, loaded_counts, db,
                   pending, conn, exc, outcome, report, log>>

\* mutant: the connection is closed on the success path only
FinallyClose_on_success_only ==
    /\ pc = "Finally"
    /\ pc' = "Done"
    /\ IF conn # "none" /\ exc = NoException
       THEN /\ conn' = "closed"
            /\ pending' = db
            /\ log' = Append(log, "close")
       ELSE UNCHANGED <<conn, pending, log>>
    /\ outcome' = IF exc = NoException THEN "returned" ELSE "raised"
    /\ UNCHANGED <<history, rawC, rawP, rawT, customers_clean, products_clean,
                   transactions_clean, transformed_counts, loaded_counts, db,
                   exc, report>>

\* finally: if self.conn: self.conn.close()
\* closing discards what the connection has not committed
FinallyClose ==
    /\ pc = "Finally"
    /\ pc' = "Done"
    /\ IF conn # "none"
       THEN /\ conn' = "closed"
            /\ pending' = db
            /\ log' = Append(log, "close")
       ELSE UNCHANGED <<conn, pending, log>>
    /\ outcome' = IF exc = NoException THEN "returned" ELSE "raised"
    /\ UNCHANGED <<history, rawC, rawP, rawT, customers_clean, products_clean,
                   transactions_clean, transformed_counts, loaded_counts, db,
                   exc, report>>

----------------------------------------------------------------------------
(* Inputs *)

Email_ab == <<"a","@","b",".","c","o">>
Email_ba == <<"b","@","a",".","c","o">>
Email_newline == <<"a","@","b",".","c","o","\n">>
Email_short_tld == <<"a","@","b",".","c">>
Email_double_dot == <<"u","s","e","r",".",".","n","a","m","e","@","e","x","a","m","p","l","e",".","c","o","m">>

EmailPool == {<<>>, Email_ab, Email_ba, Email_newline, Email_short_tld,
              Email_double_dot}

CustomerRows(ids, names, emails) ==
    [customer_id : ids, name : names, email : emails]

\* customers.csv with a name column, and without one
CustomerBatches ==
    { [hasName |-> TRUE, rows |-> b] :
        b \in SeqUpTo(CustomerRows({"c1", "c2"}, {"Ann"}, EmailPool),
                      MaxCustomerRows) }
    \cup
    { [hasName |-> FALSE, rows |-> b] :
        b \in SeqUpTo(CustomerRows({"c1", "c2"}, {NaN}, EmailPool),
                      MaxCustomerRows) }

Cat_electronics == <<"e","l","e","c","t","r","o","n","i","c","s">>
Cat_ELECTRONICS == <<"E","L","E","C","T","R","O","N","I","C","S">>
Cat_Electronics == <<"E","l","e","c","t","r","o","n","i","c","s">>
Cat_mixed == <<"E","l","E","c","T","r","O","n","I","c","S">>
Cat_Gadgets == <<"G","a","d","g","e","t","s">>

CategoryPool == {<<>>, Cat_electronics, Cat_ELECTRONICS, Cat_mixed, Cat_Gadgets}

Cat_books == <<"b","o","o","k","s">>
Cat_Books == <<"B","o","o","k","s">>
Cat_home == <<"h","o","m","e">>
Cat_Home == <<"H","o","m","e">>
Cat_home_space == <<"h","o","m","e"," ">>

\* str.upper() on one character
UpperChar(c) ==
    IF c \in LowerCase
    THEN UpperSeq[CHOOSE i \in 1..Len(LowerSeq) : LowerSeq[i] = c]
    ELSE c

\* every way of writing a lower-case word in upper and lower case letters
CaseVariants(word) ==
    { [i \in 1..Len(word) |-> IF i \in up THEN UpperChar(word[i]) ELSE word[i]] :
        up \in SUBSET (1..Len(word)) }

CategoryCells ==
    CaseVariants(Cat_electronics) \cup CaseVariants(Cat_books)
        \cup CaseVariants(Cat_home) \cup {Cat_Gadgets, Cat_home_space}

Num(v) == [k |-> "num", v |-> v]
Text == [k |-> "text", v |-> 0]

PricePool == {Num(0), Num(max_price), Num(max_price + 1), Text}

ProductBatches ==
    SeqUpTo([product_id : {"1", "2"}, name : {"Pen", "Cup"},
             category : CategoryPool, price : PricePool], MaxProductRows)

\* products.csv with one well-priced row
OneProductBatches ==
    { <<[product_id |-> "1", name |-> "Pen", category |-> c, price |-> Num(1)]>> :
        c \in CategoryCells }

AmountPool == {Num(0), Num(1), Num(max_amount), Num(max_amount + 1), Text}

DatePool == {<<>>, <<2023, 2, 30>>, <<2024, 1, 15>>, <<2024, 1, 5>>,
             <<min_year - 1, 12, 31>>, <<max_year, 12, 31>>,
             <<max_year + 1, 1, 1>>}

TransactionBatches ==
    SeqUpTo([transaction_id : {"t1", "t2"}, customer_id : {"c1"},
             product_id : {"1"}, amount : AmountPool, date : DatePool]
            \cup {EmptyRow}, MaxTransactionRows)

NoCustomers == [hasName |-> TRUE, rows |-> <<>>]

----------------------------------------------------------------------------
(* The transformers on their own: a caller applies one to a raw batch *)

CallTransformCustomers ==
    /\ pc = "call_transform_customers"
    /\ IF transform_customers_raises(rawC)
       THEN /\ exc' = <<"transform_customers", "AttributeError">>
            /\ pc' = "raised"
            /\ UNCHANGED customers_clean
       ELSE /\ customers_clean' = transform_customers(rawC)
            /\ pc' = "returned"
            /\ exc' = exc
    /\ UNCHANGED <<history, rawC, rawP, rawT, products_clean, transactions_clean,
                   transformed_counts, loaded_counts, db, pending, conn,
                   outcome, report, log>>

CallTransformProducts ==
    /\ pc = "call_transform_products"
    /\ IF transform_products_raises(rawP)
       THEN /\ exc' = <<"transform_products", "AttributeError">>
            /\ pc' = "raised"
            /\ UNCHANGED products_clean
       ELSE /\ products_clean' = transform_products(rawP)
            /\ pc' = "returned"
            /\ exc' = exc
    /\ UNCHANGED <<history, rawC, rawP, rawT, customers_clean, transactions_clean,
                   transformed_counts, loaded_counts, db, pending, conn,
                   outcome, report, log>>

CallTransformTransactions ==
    /\ pc = "call_transform_transactions"
    /\ IF transform_transactions_raises(rawT)
       THEN /\ exc' = <<"transform_transactions", "AttributeError">>
            /\ pc' = "raised"
            /\ UNCHANGED transactions_clean
       ELSE /\ transactions_clean' = transform_transactions(rawT)
            /\ pc' = "returned"
            /\ exc' = exc
    /\ UNCHANGED <<history, rawC, rawP, rawT, customers_clean, products_clean,
                   transformed_counts, loaded_counts, db, pending, conn,
                   outcome, report, log>>

CallCheckEtlPipeline ==
    /\ pc = "call_check_etl_pipeline"
    /\ report' = check_etl_pipeline(transformed_counts, loaded_counts)
    /\ pc' = "returned"
    /\ UNCHANGED <<history, rawC, rawP, rawT, customers_clean, products_clean,
                   transactions_clean, transformed_counts, loaded_counts, db,
                   pending, conn, exc, outcome, log>>

InitRest ==
    /\ customers_clean = NoCustomers
    /\ products_clean = <<>>
    /\ transactions_clean = <<>>
    /\ transformed_counts = NoCounts
    /\ loaded_counts = NoCounts
    /\ conn = "none"
    /\ exc = NoException
    /\ outcome = "running"
    /\ report = NoReport
    /\ log = <<>>
    /\ history = [prior |-> db, runs |-> <<>>]

InitCustomers ==
    /\ rawC \in CustomerBatches
    /\ rawP = <<>>
    /\ rawT = <<>>
    /\ pc = "call_transform_customers"
    /\ db = EmptyDb
    /\ pending = EmptyDb
    /\ InitRest

InitProducts ==
    /\ rawC = NoCustomers
    /\ rawP \in ProductBatches
    /\ rawT = <<>>
    /\ pc = "call_transform_products"
    /\ db = EmptyDb
    /\ pending = EmptyDb
    /\ InitRest

InitTransactions ==
    /\ rawC = NoCustomers
    /\ rawP = <<>>
    /\ rawT \in TransactionBatches
    /\ pc = "call_transform_transactions"
    /\ db = EmptyDb
    /\ pending = EmptyDb
    /\ InitRest

InitCategory ==
    /\ rawC = NoCustomers
    /\ rawP \in OneProductBatches
    /\ rawT = <<>>
    /\ pc = "call_transform_products"
    /\ db = EmptyDb
    /\ pending = EmptyDb
    /\ InitRest

SpecCustomers == InitCustomers /\ [][CallTransformCustomers]_vars

SpecProducts == InitProducts /\ [][CallTransformProducts]_vars

SpecTransactions == InitTransactions /\ [][CallTransformTransactions]_vars

SpecCategory == InitCategory /\ [][CallTransformProducts]_vars

----------------------------------------------------------------------------
(* The pipeline: run_pipeline on the three files and a store *)

PipeCustomerBatches ==
    { [hasName |-> TRUE, rows |-> b] :
        b \in SeqUpTo({ [customer_id |-> id, name |-> ne[1], email |-> ne[2]] :
                          id \in {"c1", "c2"},
                          ne \in {<<"Ann", Email_ab>>, <<NaN, Email_ba>>} },
                      MaxPipeCustomers) }

PipeProductBatches ==
    SeqUpTo([product_id : {"1", "2"}, name : {"Pen", NaN},
             category : {Cat_electronics}, price : {Num(1)}], MaxPipeProducts)

PipeTransactionBatches ==
    SeqUpTo([transaction_id : {"t1"}, customer_id : {"c1", "c2"},
             product_id : {"1"}, amount : {Num(1)},
             date : {<<>>, <<2024, 1, 15>>}], MaxPipeTransactions)

\* what an earlier run left in the store
StaleDb ==
    [customers |-> <<[customer_id |-> "c0", name |-> "Old", email |-> Email_ab]>>,
     products |-> <<[product_id |-> "0", name |-> "Old",
                     category |-> Cat_Gadgets, price |-> 1]>>,
     transactions |-> <<[transaction_id |-> "t0", customer_id |-> "c0",
                         product_id |-> "0", amount |-> 1,
                         transaction_date |-> strftime(<<2024, 1, 5>>)]>>]

PriorStores == {EmptyDb, StaleDb}

Init ==
    /\ rawC \in PipeCustomerBatches
    /\ rawP \in PipeProductBatches
    /\ rawT \in PipeTransactionBatches
    /\ pc = "Idle"
    /\ db \in PriorStores
    /\ pending = db
    /\ InitRest

Next ==
    \/ Connect
    \/ CreateTables
    \/ Extract
    \/ TransformCustomers
    \/ TransformProducts
    \/ TransformTransactions
    \/ ValidateIntegrity
    \/ load_customers
    \/ load_products
    \/ load_transactions
    \/ load_error
    \/ Verify
    \/ Check
    \/ ExceptReraise
    \/ FinallyClose

Spec == Init /\ [][Next]_vars

\* products.csv with prices of every kind, one customer, and one transaction
\* that names a product
PricedProductBatches ==
    SeqUpTo([product_id : {"1", "2"}, name : {"Pen", "Cup"},
             category : {Cat_electronics},
             price : {Num(0), Num(1), Num(max_price + 1), Text}], MaxProductRows)

OneCustomerBatch ==
    [hasName |-> TRUE,
     rows |-> <<[customer_id |-> "c1", name |-> "Ann", email |-> Email_ab]>>]

OneTransactionBatches ==
    { <<[transaction_id |-> "t1", customer_id |-> "c1", product_id |-> p,
         amount |-> Num(1), date |-> <<2024, 1, 15>>]>> : p \in {"1", "2"} }

InitPricedProducts ==
    /\ rawC = OneCustomerBatch
    /\ rawP \in PricedProductBatches
    /\ rawT \in OneTransactionBatches
    /\ pc = "Idle"
    /\ db = EmptyDb
    /\ pending = db
    /\ InitRest

SpecPricedProducts == InitPricedProducts /\ [][Next]_vars

\* main is run again on the same three files: a new ETLPipeline, the store
\* as the run before left it
RunAgain ==
    /\ pc = "Done"
    /\ Len(history.runs) < MaxRuns - 1
    /\ history' =
          [prior |-> db,
           runs |-> Append(history.runs,
                           [prior |-> history.prior,
                            outcome |-> outcome,
                            customers_clean |-> customers_clean,
                            products_clean |-> products_clean,
                            transactions_clean |-> transactions_clean,
                            transformed_counts |-> transformed_counts,
                            loaded_counts |-> loaded_counts,
                            db |-> db])]
    /\ pc' = "Idle"
    /\ pending' = db
    /\ customers_clean' = NoCustomers
    /\ products_clean' = <<>>
    /\ transactions_clean' = <<>>
    /\ transformed_counts' = NoCounts
    /\ loaded_counts' = NoCounts
    /\ conn' = "none"
    /\ exc' = NoException
    /\ outcome' = "running"
    /\ report' = NoReport
    /\ log' = <<>>
    /\ UNCHANGED <<rawC, rawP, rawT, db>>

\* the files main is run on more than once: rows that load, a customer row
\* without a name, a product row without a name, a transaction without a date
TwiceCustomerBatches ==
    { [hasName |-> TRUE, rows |-> b] :
        b \in SeqUpTo({ [customer_id |-> "c1", name |-> "Ann", email |-> Email_ab],
                        [customer_id |-> "c2", name |-> NaN, email |-> Email_ba] },
                      MaxTwiceRows) }

TwiceProductBatches ==
    SeqUpTo([product_id : {"1"}, name : {"Pen", NaN},
             category : {Cat_electronics}, price : {Num(1)}], MaxTwiceRows)

TwiceTransactionBatches ==
    SeqUpTo([transaction_id : {"t1"}, customer_id : {"c1"},
             product_id : {"1"}, amount : {Num(1)},
             date : {<<>>, <<2024, 1, 15>>}], MaxTwiceRows)

InitTwice ==
    /\ rawC \in TwiceCustomerBatches
    /\ rawP \in TwiceProductBatches
    /\ rawT \in TwiceTransactionBatches
    /\ pc = "Idle"
    /\ db \in PriorStores
    /\ pending = db
    /\ InitRest

NextTwice == Next \/ RunAgain

SpecTwice == InitTwice /\ [][NextTwice]_vars

\* the two dictionaries of counts handed to check_etl_pipeline
Counts == [customers : 0..MaxCount, products : 0..MaxCount,
           transactions : 0..MaxCount]

InitCheck ==
    /\ rawC = NoCustomers
    /\ rawP = <<>>
    /\ rawT = <<>>
    /\ pc = "call_check_etl_pipeline"
    /\ customers_clean = NoCustomers
    /\ products_clean = <<>>
    /\ transactions_clean = <<>>
    /\ transformed_counts \in Counts
    /\ loaded_counts \in Counts
    /\ db = EmptyDb
    /\ pending = EmptyDb
    /\ conn = "none"
    /\ exc = NoException
    /\ outcome = "running"
    /\ report = NoReport
    /\ log = <<>>
    /\ history = [prior |-> db, runs |-> <<>>]

\* run_pipeline, and check_etl_pipeline called on counts of its own
NextReconcile == Next \/ CallCheckEtlPipeline

SpecReconcile == (Init \/ InitCheck) /\ [][NextReconcile]_vars

----------------------------------------------------------------------------
(* Claims about the pipeline (specification Spec) *)

StageDone(stage) == \E k \in 1..Len(log) : log[k] = stage

CleanStore ==
    [customers |-> customers_clean.rows,
     products |-> products_clean,
     transactions |-> transactions_clean]

\* C1: every transaction returned by validate_referential_integrity has a
\* customer_id that some cleaned customer row has and a product_id that some
\* cleaned product row has.
C1_ReferentialIntegrity ==
    StageDone("validate_referential_integrity") =>
        \A i \in 1..Len(transactions_clean) :
            /\ \E j \in 1..Len(customers_clean.rows) :
                  customers_clean.rows[j].customer_id
                      = transactions_clean[i].customer_id
            /\ \E j \in 1..Len(products_clean) :
                  products_clean[j].product_id = transactions_clean[i].product_id

\* a transaction with a good date and amount names a customer that dedup
\* removed, and the filter has dropped it
C1_Witness ==
    /\ StageDone("validate_referential_integrity")
    /\ Len(rawT) = 1
    /\ rawT[1].date = <<2024, 1, 15>>
    /\ \E j \in 1..Len(rawC.rows) : rawC.rows[j].customer_id = rawT[1].customer_id
    /\ \A j \in 1..Len(customers_clean.rows) :
          customers_clean.rows[j].customer_id # rawT[1].customer_id
    /\ Len(customers_clean.rows) > 0
    /\ Len(products_clean) > 0
    /\ transactions_clean = <<>>

LoadStage ==
    [customers |-> "load_customers", products |-> "load_products",
     transactions |-> "load_transactions"]

C3_ClosedOnEveryExit ==
    /\ (outcome # "running" /\ StageDone("connect_database")) => conn = "closed"
    /\ outcome # "running" => (outcome = "raised" <=> exc # NoException)
    /\ exc # NoException =>
          /\ pc \in {"Except", "Finally", "Done"}
          /\ ~StageDone(exc[1])
          /\ ~StageDone("check_etl_pipeline")

C3_Witness ==
    /\ pc = "Done"
    /\ exc[1] = "load_transactions"
    /\ conn = "closed"
    /\ outcome = "raised"

StageOrder ==
    <<"connect_database", "create_tables", "extract_data",
      "transform_customers", "transform_products", "transform_transactions",
      "validate_referential_integrity",
      "load_customers", "load_products", "load_transactions",
      "verify_data_loaded", "check_etl_pipeline">>

\* C4: the stages complete only in the order connect, create tables, extract,
\* the three transforms, integrity filter, the three loads, verify,
\* reconcile, close; a run that returns has completed each exactly once.
C4_StageOrder ==
    /\ \E k \in 0..Len(StageOrder) :
          \/ log = SubSeq(StageOrder, 1, k)
          \/ log = Append(SubSeq(StageOrder, 1, k), "close")
    /\ outcome = "returned" => log = Append(StageOrder, "close")

C4_Witness ==
    /\ outcome = "returned"
    /\ Len(transactions_clean) > 0

----------------------------------------------------------------------------
(* Claims about transform_customers (specification SpecCustomers) *)

\* local@domain.tld: the whole text is the local part, "@", the domain, "."
\* and a top-level label of two letters or more
IsLocalAtDomainTld(s) == PatternUpTo(s, Len(s))

\* C5: every row transform_customers returns has an email that is non-empty,
\* is of the form local@domain.tld and is none of the 11 blacklist literals;
\* no two returned rows share an email, none share a customer_id.
C5_EmailsValidAndUnique ==
    pc = "returned" =>
        LET out == customers_clean.rows
        IN  /\ \A i \in 1..Len(out) :
                  /\ out[i].email # <<>>
                  /\ IsLocalAtDomainTld(out[i].email)
                  /\ out[i].email \notin invalid_patterns
            /\ \A i, j \in 1..Len(out) :
                  i # j => /\ out[i].email # out[j].email
                           /\ out[i].customer_id # out[j].customer_id

\* the email passes the three validation steps of transform_customers
PassesValidation(e) ==
    e # <<>> /\ e \notin invalid_patterns /\ email_pattern(e)

FirstCarrier(e) ==
    CHOOSE i \in 1..Len(rawC.rows) :
        /\ rawC.rows[i].email = e
        /\ \A j \in 1..(i - 1) : rawC.rows[j].email # e

\* emails that pass validation and are carried by raw rows of different ids
ContestedEmails ==
    { e \in Column(rawC.rows, "email") :
        /\ PassesValidation(e)
        /\ \E i, j \in 1..Len(rawC.rows) :
              /\ rawC.rows[i].email = e
              /\ rawC.rows[j].email = e
              /\ rawC.rows[i].customer_id # rawC.rows[j].customer_id }

OutWith(e) ==
    { k \in 1..Len(customers_clean.rows) : customers_clean.rows[k].email = e }

\* the returned row o is the raw row r (its name defaulted when the file has
\* no name column)
IsRawRow(o, r) ==
    /\ o.customer_id = r.customer_id
    /\ o.email = r.email
    /\ o.name = (IF rawC.hasName THEN r.name ELSE "Unknown")

\* C6 as claimed: for a valid email carried by raw rows of different
\* customer_ids, the cleaned set holds the first row carrying it and no later
\* row carrying it.
C6_FirstCarrierSurvives ==
    pc = "returned" =>
        \A e \in ContestedEmails :
            /\ Cardinality(OutWith(e)) = 1
            /\ \A k \in OutWith(e) :
                  IsRawRow(customers_clean.rows[k], rawC.rows[FirstCarrier(e)])

\* raw row j is the first carrier of an email that passes validation
SurvivesEmailDedup(j) ==
    /\ PassesValidation(rawC.rows[j].email)
    /\ FirstCarrier(rawC.rows[j].email) = j

\* C6 as amended: the cleaned set holds no later row carrying the email, and
\* holds the first row carrying it unless an earlier raw row that is the first
\* carrier of another valid email has the same customer_id (the customer_id
\* dedup then removes it and no row with this email is left).
C6_FirstCarrierOrNone ==
    pc = "returned" =>
        \A e \in ContestedEmails :
            /\ Cardinality(OutWith(e)) <= 1
            /\ \A k \in OutWith(e) :
                  IsRawRow(customers_clean.rows[k], rawC.rows[FirstCarrier(e)])
            /\ OutWith(e) = {} <=>
                  \E j \in 1..(FirstCarrier(e) - 1) :
                      /\ SurvivesEmailDedup(j)
                      /\ rawC.rows[j].customer_id
                            = rawC.rows[FirstCarrier(e)].customer_id

\* an email with two carriers of different ids whose first carrier lost its
\* customer_id to an earlier row: nothing with that email is returned
C6_Witness ==
    /\ pc = "returned"
    /\ \E e \in ContestedEmails : OutWith(e) = {}
    /\ Len(customers_clean.rows) = 1

----------------------------------------------------------------------------
(* Claims about load_customers and the name column (specification Spec) *)

\* C7: a customer whose name is absent is kept with the name "Unknown", so no
\* cleaned customer row has a null name and load_customers never fails on
\* the NOT NULL constraint of customers.name.
C7_NameNeverNull ==
    /\ StageDone("transform_customers") =>
          \A i \in 1..Len(customers_clean.rows) :
              customers_clean.rows[i].name # NaN
    /\ exc # <<"load_customers", "IntegrityError">>

----------------------------------------------------------------------------
(* Claims about transform_transactions (specification SpecTransactions) *)

\* C8: a transformer given a batch with the required columns returns a
\* cleaned batch, possibly empty, whatever its rows hold; it does not raise.
C8_RejectionsNeverRaise == pc # "raised" /\ exc = NoException

DigitVal(c) == CHOOSE n \in 0..9 : DigitSeq[n + 1] = c

\* the text is DDDD-DD-DD
IsYmdText(s) ==
    /\ Len(s) = 10
    /\ s[5] = "-" /\ s[8] = "-"
    /\ \A k \in {1, 2, 3, 4, 6, 7, 9, 10} : s[k] \in Digits

\* the numbers a DDDD-DD-DD text spells
YmdOf(s) ==
    << 1000 * DigitVal(s[1]) + 100 * DigitVal(s[2])
         + 10 * DigitVal(s[3]) + DigitVal(s[4]),
       10 * DigitVal(s[6]) + DigitVal(s[7]),
       10 * DigitVal(s[9]) + DigitVal(s[10]) >>

Text_2024_01_15 == <<"2","0","2","4","-","0","1","-","1","5">>

\* raw row i is the first row with its transaction_id among the rows whose
\* date validates
FirstValidOfId(i) ==
    \A j \in 1..(i - 1) :
        rawT[j].transaction_id = rawT[i].transaction_id
            => validate_date(rawT[j].date) = NaT

\* C9: every row transform_transactions returns has 0 < amount <= 10000, a
\* transaction_date written YYYY-MM-DD that is a day of the calendar with its
\* year in 1900..2100, and a transaction_id no other returned row has; it is
\* a raw row, its date rendered (so no row dated 2023-02-30, of amount 0.00
\* or of amount 10001.00 is returned); a raw row dated 2024-01-15 with amount
\* 10000.00 is returned, dated "2024-01-15".
C9_TransactionsValid ==
    pc = "returned" =>
        LET out == transactions_clean
        IN  /\ \A i \in 1..Len(out) :
                  /\ out[i].amount > 0
                  /\ out[i].amount <= 10000
                  /\ IsYmdText(out[i].transaction_date)
                  /\ RealDate(YmdOf(out[i].transaction_date))
                  /\ YmdOf(out[i].transaction_date)[1] \in 1900..2100
            /\ \A i, j \in 1..Len(out) :
                  i # j => out[i].transaction_id # out[j].transaction_id
            /\ \A k \in 1..Len(out) : \E i \in 1..Len(rawT) :
                  /\ rawT[i].transaction_id = out[k].transaction_id
                  /\ rawT[i].amount = Num(out[k].amount)
                  /\ rawT[i].date = YmdOf(out[k].transaction_date)
            /\ \A i \in 1..Len(rawT) :
                  ( /\ rawT[i].date = <<2024, 1, 15>>
                    /\ rawT[i].amount = Num(10000)
                    /\ FirstValidOfId(i) )
                  => \E k \in 1..Len(out) :
                        /\ out[k].transaction_id = rawT[i].transaction_id
                        /\ out[k].amount = 10000
                        /\ out[k].transaction_date = Text_2024_01_15

\* one row dated 2023-02-30 is rejected, one of amount 10000.00 is returned
C9_Witness ==
    /\ pc = "returned"
    /\ Len(rawT) = 2
    /\ rawT[1].date = <<2023, 2, 30>>
    /\ rawT[2].date = <<2024, 1, 15>>
    /\ rawT[2].amount = Num(10000)
    /\ Len(transactions_clean) = 1
    /\ transactions_clean[1].transaction_date = Text_2024_01_15

----------------------------------------------------------------------------
(* Claims about transform_products (specification SpecProducts) *)

\* C10: every row transform_products returns has a numeric price with
\* 0 < price <= 10000; no two returned rows share a product_id and no two
\* share the pair (name, normalized category).
C10_ProductsValid ==
    pc = "returned" =>
        LET out == products_clean
        IN  /\ \A i \in 1..Len(out) :
                  /\ out[i].price \in Int
                  /\ out[i].price > 0
                  /\ out[i].price <= 10000
            /\ \A i, j \in 1..Len(out) :
                  i # j =>
                    /\ out[i].product_id # out[j].product_id
                    /\ ~( /\ out[i].name = out[j].name
                          /\ standardize_category(out[i].category)
                                = standardize_category(out[j].category) )

\* two raw rows of different ids and case variants of one category: one is
\* returned
C10_Witness ==
    /\ pc = "returned"
    /\ Len(rawP) = 2
    /\ rawP[1].product_id # rawP[2].product_id
    /\ rawP[1].name = rawP[2].name
    /\ rawP[1].category = Cat_electronics
    /\ rawP[2].category = Cat_ELECTRONICS
    /\ rawP[1].price = Num(max_price)
    /\ rawP[2].price = Num(max_price)
    /\ Len(products_clean) = 1
    /\ products_clean[1].category = Cat_Electronics

----------------------------------------------------------------------------
(* Claims about the category of a product (specification SpecCategory) *)

\* the spellings the claim of an exact-key lookup names, with their results
ExactForms ==
    { <<Cat_electronics, Cat_Electronics>>, <<Cat_ELECTRONICS, Cat_Electronics>>,
      <<Cat_books, Cat_Books>>, <<[i \in 1..5 |-> UpperChar(Cat_books[i])], Cat_Books>>,
      <<Cat_home, Cat_Home>>, <<[i \in 1..4 |-> UpperChar(Cat_home[i])], Cat_Home>> }

\* the three known categories: lower-case spelling and canonical spelling
CanonicalForms ==
    { <<Cat_electronics, Cat_Electronics>>, <<Cat_books, Cat_Books>>,
      <<Cat_home, Cat_Home>> }

\* c spells word (lower-case letters), each letter in either case
SpellsIgnoringCase(c, word) ==
    /\ Len(c) = Len(word)
    /\ \A i \in 1..Len(word) :
          \E n \in 1..Len(LowerSeq) :
             /\ LowerSeq[n] = word[i]
             /\ c[i] \in {LowerSeq[n], UpperSeq[n]}

\* C11 (as stated): the lookup is case-sensitive: the all-lower-case and
\* all-upper-case spellings of electronics, books and home are returned as
\* Electronics, Books, Home, and every other raw category, a mixed-case
\* spelling included, is returned unchanged.
C11_ExactKeyLookup ==
    (pc = "returned" /\ Len(rawP) = 1) =>
        /\ Len(products_clean) = 1
        /\ LET raw == rawP[1].category
               out == products_clean[1].category
           IN  /\ \A kv \in ExactForms : raw = kv[1] => out = kv[2]
               /\ (\A kv \in ExactForms : raw # kv[1]) => out = raw

\* C11 (amended): the lookup ignores case: every spelling of electronics,
\* books or home, in any mix of upper and lower case, is returned as
\* Electronics, Books, Home, and every other raw category is returned
\* unchanged.
C11_CaseInsensitiveLookup ==
    (pc = "returned" /\ Len(rawP) = 1) =>
        /\ Len(products_clean) = 1
        /\ LET raw == rawP[1].category
               out == products_clean[1].category
           IN  /\ \A kv \in CanonicalForms :
                     SpellsIgnoringCase(raw, kv[1]) => out = kv[2]
               /\ (\A kv \in CanonicalForms : ~SpellsIgnoringCase(raw, kv[1]))
                     => out = raw

\* the mixed-case spelling ElEcTrOnIcS is returned as Electronics
C11_Witness ==
    /\ pc = "returned"
    /\ Len(rawP) = 1
    /\ rawP[1].category = Cat_mixed
    /\ Len(products_clean) = 1
    /\ products_clean[1].category = Cat_Electronics

----------------------------------------------------------------------------
(* Claims about the reconciliation (specification SpecReconcile) *)

Entities == {"customers", "products", "transactions"}

\* C12: once the three load stages of a run have completed, the count read
\* back from each table equals the count recorded before loading, whatever
\* the input and whatever the store held before, so each entity is reported
\* PASS; and whatever counts check_etl_pipeline is given, it reports an
\* entity PASS exactly when its two counts are equal and the status PASS
\* exactly when the three entities match.
C12_Reconciliation ==
    /\ StageDone("load_transactions") =>
          \A t \in Entities : Len(pending[t]) = transformed_counts[t]
    /\ StageDone("verify_data_loaded") =>
          \A t \in Entities : loaded_counts[t] = transformed_counts[t]
    /\ StageDone("check_etl_pipeline") =>
          \A t \in Entities : report[t] = "PASS"
    /\ report # NoReport =>
          /\ \A t \in Entities :
                report[t] = "PASS" <=> transformed_counts[t] = loaded_counts[t]
          /\ \A t \in Entities : report[t] \in {"PASS", "FAIL"}
          /\ report.status \in {"PASS", "FAIL"}
          /\ report.status = "PASS" <=>
                \A t \in Entities : transformed_counts[t] = loaded_counts[t]

\* a run over a store that held another run's rows loaded one row per table
\* and reported PASS
C12_Witness ==
    /\ StageDone("check_etl_pipeline")
    /\ history.prior = StaleDb
    /\ \A t \in Entities : transformed_counts[t] = 1 /\ loaded_counts[t] = 1
    /\ report.status = "PASS"

----------------------------------------------------------------------------
(* Claims about repeated runs (specification SpecTwice) *)

\* C13: when main is run again on the same files, a run that returns has
\* the cleaned sets (same rows, same order), the counts and the stored tables
\* of every earlier run that returned, and it cannot fail on the data once an
\* earlier run returned; and after any run that returns the three tables
\* hold exactly that run's cleaned sets, whatever the store held before.
C13_IdempotentReload ==
    /\ outcome = "returned" =>
          /\ db = CleanStore
          /\ \A k \in 1..Len(history.runs) :
                history.runs[k].outcome = "returned" =>
                    /\ customers_clean = history.runs[k].customers_clean
                    /\ products_clean = history.runs[k].products_clean
                    /\ transactions_clean = history.runs[k].transactions_clean
                    /\ transformed_counts = history.runs[k].transformed_counts
                    /\ loaded_counts = history.runs[k].loaded_counts
                    /\ db = history.runs[k].db
    /\ (\E k \in 1..Len(history.runs) : history.runs[k].outcome = "returned")
          => (exc = NoException \/ exc[2] \in {"OperationalError", "OSError"})

\* the first run replaced another run's rows, the second run returned too and
\* left the same non-empty tables
C13_Witness ==
    /\ outcome = "returned"
    /\ Len(history.runs) = 1
    /\ history.runs[1].outcome = "returned"
    /\ history.runs[1].prior = StaleDb
    /\ \A t \in Entities : Len(db[t]) = 1
    /\ db = history.runs[1].db

----------------------------------------------------------------------------
(* Claims about the order of dedup and price validation (specification
   SpecPricedProducts) *)

\* the index of the first raw product row with product_id p, 0 if none
FirstRawOf(p) ==
    IF \E i \in 1..Len(rawP) : rawP[i].product_id = p
    THEN CHOOSE i \in 1..Len(rawP) :
            /\ rawP[i].product_id = p
            /\ \A j \in 1..(i - 1) : rawP[j].product_id # p
    ELSE 0

\* the raw price cell is a number in (0, 10000]
GoodPrice(cell) == cell.k = "num" /\ cell.v > 0 /\ cell.v <= 10000

\* C14: a row of the cleaned product set is the first raw row of its
\* product_id, and that row has a numeric price in (0, 10000]; when the first
\* raw row of a product_id has a non-numeric or out-of-range price the
\* cleaned set has no row of that product_id, whatever later raw rows of it
\* hold, and the integrity filter leaves no transaction that names it.
C14_OnlyFirstRowOfId ==
    /\ StageDone("transform_products") =>
          /\ \A k \in 1..Len(products_clean) :
                LET i == FirstRawOf(products_clean[k].product_id)
                IN  /\ i # 0
                    /\ rawP[i].name = products_clean[k].name
                    /\ rawP[i].price = Num(products_clean[k].price)
                    /\ GoodPrice(rawP[i].price)
          /\ \A i \in 1..Len(rawP) :
                (i = FirstRawOf(rawP[i].product_id) /\ ~GoodPrice(rawP[i].price))
                    => \A k \in 1..Len(products_clean) :
                          products_clean[k].product_id # rawP[i].product_id
    /\ StageDone("validate_referential_integrity") =>
          \A i \in 1..Len(rawP) :
              (i = FirstRawOf(rawP[i].product_id) /\ ~GoodPrice(rawP[i].price))
                  => \A k \in 1..Len(transactions_clean) :
                        transactions_clean[k].product_id # rawP[i].product_id

\* the first raw row of a product has a bad price and a later one a good
\* price: the product is not in the cleaned set and the one transaction,
\* which names it, has been filtered out
C14_Witness ==
    /\ StageDone("validate_referential_integrity")
    /\ Len(rawP) = 2
    /\ rawP[1].product_id = rawP[2].product_id
    /\ ~GoodPrice(rawP[1].price)
    /\ GoodPrice(rawP[2].price)
    /\ rawT[1].product_id = rawP[1].product_id
    /\ products_clean = <<>>
    /\ transactions_clean = <<>>

====
